---- MODULE Spec2Model ----
(***************************************************************************)
(* A model of src/main.py, the 7TV emote-set downloader: URL resolution,   *)
(* the two retrying fetchers, variant selection, conversion and the        *)
(* sequential per-emote loop of main().                                    *)
(*                                                                         *)
(* Python strings are sequences of one-character strings.  A value that    *)
(* the code only ever tests for truthiness (None, a missing key, "") is    *)
(* the empty sequence.                                                     *)
(***************************************************************************)
EXTENDS Integers, Sequences, FiniteSets, TLC

\* ------------------------------------------------------------------ text

LowerSeq == <<"a","b","c","d","e","f","g","h","i","j","k","l","m",
              "n","o","p","q","r","s","t","u","v","w","x","y","z">>
UpperSeq == <<"A","B","C","D","E","F","G","H","I","J","K","L","M",
              "N","O","P","Q","R","S","T","U","V","W","X","Y","Z">>
Digits == {"0","1","2","3","4","5","6","7","8","9"}

Range(s) == {s[i] : i \in DOMAIN s}

\* the character class [A-Za-z0-9] of the two URL patterns
Alnum == Range(LowerSeq) \cup Range(UpperSeq) \cup Digits

IsAlnum(c) == c \in Alnum

\* the character class [A-Za-z0-9._-] that sanitize keeps
Safe == Alnum \cup {".", "_", "-"}

IsSafe(c) == c \in Safe

\* the lower-case letter of each upper-case letter
LowerOf ==
    [c \in Range(UpperSeq) |->
        LowerSeq[CHOOSE i \in DOMAIN UpperSeq : UpperSeq[i] = c]]

\* str.lower(), one character
LowerChar(c) == IF c \in DOMAIN LowerOf THEN LowerOf[c] ELSE c

\* str.lower()
Lower(s) == [i \in DOMAIN s |-> LowerChar(s[i])]

\* str.startswith(p)
StartsWith(s, p) ==
    /\ Len(p) <= Len(s)
    /\ \A i \in 1..Len(p) : s[i] = p[i]

\* str.endswith(p)
EndsWith(s, p) ==
    /\ Len(p) <= Len(s)
    /\ \A i \in 1..Len(p) : s[Len(s) - Len(p) + i] = p[i]

\* s.split(".")[-1]: what follows the last "." (all of s when there is none)
LastDotPart(s) ==
    LET dots == {i \in DOMAIN s : s[i] = "."}
    IN IF dots = {} THEN s
       ELSE LET d == CHOOSE i \in dots : \A j \in dots : j <= i
            IN SubSeq(s, d + 1, Len(s))

\* s.strip("_")
StripUnderscore(s) ==
    LET keep == {i \in DOMAIN s : s[i] # "_"}
    IN IF keep = {} THEN <<>>
       ELSE LET lo == CHOOSE i \in keep : \A j \in keep : i <= j
                hi == CHOOSE i \in keep : \A j \in keep : j <= i
            IN SubSeq(s, lo, hi)

\* re.sub(r"[^A-Za-z0-9._-]+", "_", s): each maximal run of unsafe
\* characters becomes one "_"
RECURSIVE SubUnsafe(_)
SubUnsafe(s) ==
    IF s = <<>> THEN <<>>
    ELSE IF IsSafe(Head(s)) THEN <<Head(s)>> \o SubUnsafe(Tail(s))
    ELSE IF Len(s) >= 2 /\ ~IsSafe(s[2]) THEN SubUnsafe(Tail(s))
    ELSE <<"_">> \o SubUnsafe(Tail(s))

UNNAMED == <<"u","n","n","a","m","e","d">>

sanitize(s) ==
    LET t == StripUnderscore(SubUnsafe(s))
    IN IF t = <<>> THEN UNNAMED ELSE t

\* ----------------------------------------------------------- extract_ids

SETS_LIT == <<"/","e","m","o","t","e","-","s","e","t","s","/">>
USERS_LIT == <<"/","u","s","e","r","s","/">>

\* the positions where re.search(lit + "([A-Za-z0-9]+)", s) can match
MatchStarts(lit, s) ==
    {i \in DOMAIN s :
        /\ i + Len(lit) <= Len(s)
        /\ \A k \in 1..Len(lit) : s[i + k - 1] = lit[k]
        /\ IsAlnum(s[i + Len(lit)])}

\* group(1) of the leftmost match: the longest alphanumeric run after lit
Captured(lit, s) ==
    LET i == CHOOSE p \in MatchStarts(lit, s) :
                 \A q \in MatchStarts(lit, s) : p <= q
        b == i + Len(lit)
        e == CHOOSE j \in b..Len(s) :
                 /\ \A k \in b..j : IsAlnum(s[k])
                 /\ (j = Len(s) \/ ~IsAlnum(s[j + 1]))
    IN SubSeq(s, b, e)

NoIds == [type |-> "error", id |-> <<>>]

\* extract_ids with the user pattern tried first
extract_ids_users_first(url) ==
    IF MatchStarts(USERS_LIT, url) # {}
    THEN [type |-> "user", id |-> Captured(USERS_LIT, url)]
    ELSE IF MatchStarts(SETS_LIT, url) # {}
    THEN [type |-> "set", id |-> Captured(SETS_LIT, url)]
    ELSE NoIds

\* extract_ids: the set pattern is tried first; type "error" is the ValueError
extract_ids(url) ==
    IF MatchStarts(SETS_LIT, url) # {}
    THEN [type |-> "set", id |-> Captured(SETS_LIT, url)]
    ELSE IF MatchStarts(USERS_LIT, url) # {}
    THEN [type |-> "user", id |-> Captured(USERS_LIT, url)]
    ELSE NoIds

\* -------------------------------------------------------------- fetchers

RETRY_STATUSES == {429, 500, 502, 503, 504, 520, 522, 524}

\* max_retries of http_get_json and of download_bytes
JSON_MAX_RETRIES == 6
BYTES_MAX_RETRIES == 5

NoErr == [e |-> "none", status |-> 0]
NoBody == [t |-> "none"]
NotJson == [t |-> "notjson"]

\* The exception one pass through the try block raises for what SESSION.get
\* did (o.exc: it raised a transport error; else a response with o.status and
\* o.body), NoErr when the block returns.  raise_for_status raises for every
\* 4xx and 5xx status; r.json() raises for a body that is not JSON.
AttemptError(fn, o) ==
    IF o.exc THEN [e |-> "ConnectionError", status |-> 0]
    ELSE IF o.status \in RETRY_STATUSES THEN [e |-> "HTTPError", status |-> o.status]
    ELSE IF o.status >= 400 /\ o.status < 600 THEN [e |-> "HTTPError", status |-> o.status]
    ELSE IF fn = "json" /\ o.body = NotJson THEN [e |-> "JSONDecodeError", status |-> o.status]
    ELSE NoErr

\* a call of http_get_json (fn = "json") or download_bytes (fn = "bytes")
\* before its first attempt
NewCall(fn, url) ==
    [fn |-> fn, url |-> url, attempt |-> 0, sleeps |-> 0, last_err |-> NoErr,
     state |-> "running", result |-> NoBody]

NoCall == [NewCall("none", [api |-> "none", path |-> <<>>]) EXCEPT !.state = "idle"]

KEYBOARD_INTERRUPT == "KeyboardInterrupt"

\* "except:" in place of "except Exception"
ExceptAnything(e) == TRUE

\* "except Exception": whether the clause catches an exception of class e.
\* KeyboardInterrupt derives from BaseException, not from Exception.
ExceptException(e) == e # KEYBOARD_INTERRUPT

\* RetryStep with an except clause that does not catch what SESSION.get
\* raises: a transport error leaves the call at once
RetryStepNoTransport(c, o, max_retries) ==
    LET attempt == c.attempt + 1
        err == AttemptError(c.fn, o)
    IN IF err = NoErr
       THEN [c EXCEPT !.attempt = attempt, !.state = "returned", !.result = o.body]
       ELSE IF attempt = max_retries \/ o.exc
       THEN [c EXCEPT !.attempt = attempt, !.last_err = err, !.state = "raised"]
       ELSE [c EXCEPT !.attempt = attempt, !.last_err = err, !.sleeps = @ + 1]

\* RetryStep with the sleep ahead of the test for the last attempt
RetryStepSleepFirst(c, o, max_retries) ==
    LET attempt == c.attempt + 1
        err == AttemptError(c.fn, o)
    IN IF err = NoErr
       THEN [c EXCEPT !.attempt = attempt, !.state = "returned", !.result = o.body]
       ELSE IF attempt = max_retries
       THEN [c EXCEPT !.attempt = attempt, !.last_err = err, !.sleeps = @ + 1,
                      !.state = "raised"]
       ELSE [c EXCEPT !.attempt = attempt, !.last_err = err, !.sleeps = @ + 1]

\* one pass of "for attempt in range(1, max_retries + 1)": the request, then
\* return, or record last_err and either break (raise last_err) or sleep
RetryStep(c, o, max_retries) ==
    LET attempt == c.attempt + 1
        err == AttemptError(c.fn, o)
    IN IF err = NoErr
       THEN [c EXCEPT !.attempt = attempt, !.state = "returned", !.result = o.body]
       ELSE IF attempt = max_retries
       THEN [c EXCEPT !.attempt = attempt, !.last_err = err, !.state = "raised"]
       ELSE [c EXCEPT !.attempt = attempt, !.last_err = err, !.sleeps = @ + 1]

\* ------------------------------------------------------ resolve_from_user

\* f"{API_BASE}/users/{user_id}" and f"{API_BASE}/users/7tv/{user_id}"
endpoints(user_id) ==
    << [api |-> "users", path |-> user_id],
       [api |-> "users/7tv", path |-> user_id] >>

\* f"{API_BASE}/emote-sets/{set_id}"
EmoteSetUrl(set_id) == [api |-> "emote-sets", path |-> set_id]

\* ParseUser with the connections scanned before emote_set is read
ParseUserConnectionsFirst(data) ==
    IF data.t # "user"
    THEN [raised |-> TRUE, username |-> <<>>, set_id |-> <<>>]
    ELSE LET username == IF data.username # <<>> THEN data.username
                         ELSE data.display_name
             from_set == IF data.emote_set.isdict THEN data.emote_set.id ELSE <<>>
             carrying == {i \in DOMAIN data.connections :
                             data.connections[i].emote_set_id # <<>>}
             from_conn == IF carrying = {} THEN <<>>
                          ELSE data.connections[
                                   CHOOSE i \in carrying : \A j \in carrying : i <= j
                               ].emote_set_id
         IN [raised |-> FALSE, username |-> username,
             set_id |-> IF from_conn # <<>> THEN from_conn ELSE from_set]

\* The body of the try block after http_get_json returned data: the username
\* and the set id it finds (<<>>: none).  raised: data is not an object, so
\* data.get raises and the except clause goes on to the next endpoint.
ParseUser(data) ==
    IF data.t # "user"
    THEN [raised |-> TRUE, username |-> <<>>, set_id |-> <<>>]
    ELSE LET username == IF data.username # <<>> THEN data.username
                         ELSE data.display_name
             from_set == IF data.emote_set.isdict THEN data.emote_set.id ELSE <<>>
             carrying == {i \in DOMAIN data.connections :
                             data.connections[i].emote_set_id # <<>>}
             from_conn == IF carrying = {} THEN <<>>
                          ELSE data.connections[
                                   CHOOSE i \in carrying : \A j \in carrying : i <= j
                               ].emote_set_id
         IN [raised |-> FALSE, username |-> username,
             set_id |-> IF from_set # <<>> THEN from_set ELSE from_conn]

\* ReturnsFrom with "if username and set_id"
ReturnsFromNamed(parsed) ==
    ~parsed.raised /\ parsed.set_id # <<>> /\ parsed.username # <<>>

\* "if set_id: return username, set_id": whether the loop over the endpoints
\* returns from this endpoint
ReturnsFrom(parsed) == ~parsed.raised /\ parsed.set_id # <<>>

\* -------------------------------------------------- best_file_for_emote

GIF == <<"g","i","f">>
PNG == <<"p","n","g">>
WEBP == <<"w","e","b","p">>
AVIF == <<"a","v","i","f">>

\* the priority list of an emote
Priority(animated) == IF animated THEN <<GIF, WEBP, AVIF>> ELSE <<PNG, WEBP, AVIF>>

\* ByName with a dict that keeps the first of the files that share a name
ByNameFirst(files, target) ==
    LET same == {i \in DOMAIN files : Lower(files[i].name) = target}
    IN IF same = {} THEN 0
       ELSE CHOOSE i \in same : \A j \in same : i <= j

\* by_name.get(target): the dict comprehension keeps, of the files that share
\* a lower-cased name, the one that comes last (0: no such key)
ByName(files, target) ==
    LET same == {i \in DOMAIN files : Lower(files[i].name) = target}
    IN IF same = {} THEN 0
       ELSE CHOOSE i \in same : \A j \in same : j <= i

\* best_file_for_emote: the position in files of the entry returned (0: None)
\* and the animated flag
best_file_for_emote(emote, scale) ==
    LET files == emote.files
        priority == Priority(emote.animated)
        target(k) == scale \o <<".">> \o priority[k]
        exact == {k \in DOMAIN priority : ByName(files, target(k)) # 0}
        loose == {i \in DOMAIN files : StartsWith(Lower(files[i].name), scale)}
    IN [file |->
            IF exact # {}
            THEN ByName(files, target(CHOOSE k \in exact : \A j \in exact : k <= j))
            ELSE IF loose # {}
            THEN CHOOSE i \in loose : \A j \in loose : i <= j
            ELSE Len(files),
        animated |-> emote.animated]

\* build_cdn_url; <<>> is None
build_cdn_url(host_url, file_name) ==
    LET base == IF StartsWith(host_url, <<"/","/">>)
                THEN <<"h","t","t","p","s",":">> \o host_url
                ELSE host_url
    IN IF base = <<>> THEN <<>>
       ELSE IF EndsWith(base, <<"/">>) THEN base \o file_name
       ELSE base \o <<"/">> \o file_name

\* ----------------------------------------------------- convert_and_save

ORIG == <<".","o","r","i","g">>

\* convert_and_save with "if not animated and target_ext.lower() == 'png'"
convert_and_save_static_png(content, out_path, animated, target_ext) ==
    IF content.kind = "unident"
    THEN [raised |-> FALSE, ok |-> FALSE,
          writes |-> << [path |-> out_path \o ORIG, frames |-> <<>>, raw |-> TRUE] >>]
    ELSE IF content.kind = "corrupt"
    THEN [raised |-> TRUE, ok |-> FALSE, writes |-> <<>>]
    ELSE IF animated /\ content.n_frames > 1 /\ Lower(target_ext) = GIF
    THEN LET good == IF content.bad_frame < content.n_frames
                     THEN content.bad_frame ELSE content.n_frames
             frames == IF good = content.n_frames
                       THEN [i \in 1..good |-> i - 1]
                       ELSE << IF good = 0 THEN 0 ELSE good - 1 >>
         IN [raised |-> FALSE, ok |-> TRUE,
             writes |-> << [path |-> out_path, frames |-> frames, raw |-> FALSE] >>]
    ELSE IF ~animated /\ Lower(target_ext) = PNG
    THEN [raised |-> FALSE, ok |-> TRUE,
          writes |-> << [path |-> out_path, frames |-> <<0>>, raw |-> FALSE] >>]
    ELSE [raised |-> FALSE, ok |-> FALSE,
          writes |-> << [path |-> out_path \o ORIG, frames |-> <<>>, raw |-> TRUE] >>]

\* what one call writes and returns.  content.kind: "unident" (Image.open
\* raises UnidentifiedImageError), "corrupt" (Image.open raises another
\* error, which nothing here catches) or "image"; an image has n_frames
\* frames, is_animated when n_frames > 1, and seek(bad_frame) raises when
\* bad_frame < n_frames.  A written file is its path and the source frames
\* it holds (none: the bytes as fetched).
convert_and_save(content, out_path, animated, target_ext) ==
    IF content.kind = "unident"
    THEN [raised |-> FALSE, ok |-> FALSE,
          writes |-> << [path |-> out_path \o ORIG, frames |-> <<>>, raw |-> TRUE] >>]
    ELSE IF content.kind = "corrupt"
    THEN [raised |-> TRUE, ok |-> FALSE, writes |-> <<>>]
    ELSE IF animated /\ content.n_frames > 1 /\ Lower(target_ext) = GIF
    THEN LET good == IF content.bad_frame < content.n_frames
                     THEN content.bad_frame ELSE content.n_frames
             \* frames 0..good-1 were appended; on an error the list is
             \* replaced by the frame the image is positioned at
             frames == IF good = content.n_frames
                       THEN [i \in 1..good |-> i - 1]
                       ELSE << IF good = 0 THEN 0 ELSE good - 1 >>
         IN [raised |-> FALSE, ok |-> TRUE,
             writes |-> << [path |-> out_path, frames |-> frames, raw |-> FALSE] >>]
    ELSE IF Lower(target_ext) = PNG
    THEN [raised |-> FALSE, ok |-> TRUE,
          writes |-> << [path |-> out_path, frames |-> <<0>>, raw |-> FALSE] >>]
    ELSE [raised |-> FALSE, ok |-> FALSE,
          writes |-> << [path |-> out_path \o ORIG, frames |-> <<>>, raw |-> TRUE] >>]

\* -------------------------------------------------------- derive_outdir

PRE_7TV == <<"7","t","v","_">>
PRE_USER == <<"7","t","v","_","u","s","e","r","_">>
PRE_SET == <<"7","t","v","_","s","e","t","_">>

derive_outdir(args_out, source_type, meta, fallback_id) ==
    IF args_out # <<>> THEN args_out
    ELSE IF source_type = "user"
    THEN LET username == sanitize(meta.username)
         IN IF username # <<>> THEN PRE_7TV \o username
            ELSE PRE_USER \o sanitize(fallback_id)
    ELSE LET set_name == sanitize(meta.name)
         IN IF set_name # <<>> THEN PRE_SET \o set_name
            ELSE PRE_SET \o sanitize(fallback_id)

\* --------------------------------------------------------------- inputs

\* the longest emote list the modelled server answers with
MaxEmotes == 2

S_1x == <<"1","x">>
S_2x == <<"2","x">>

\* --scale (two of the four choices)
Scales == {S_1x, S_2x}

HOST == <<"h","t","t","p","s",":","/","/","7","t","v",".","a","p","p">>

\* the URLs given on the command line: a set URL, a URL with a /users/ and a
\* /emote-sets/ segment, a user URL whose /emote-sets/ segment holds no id,
\* and a URL with neither segment
Urls ==
    { HOST \o SETS_LIT \o <<"a","1">>,
      HOST \o USERS_LIT \o <<"u","1">> \o SETS_LIT \o <<"b","2","?","z">>,
      HOST \o SETS_LIT \o <<"-">> \o USERS_LIT \o <<"u","2","-","x">>,
      HOST \o <<"/","x">> }

ID_S1 == <<"s","1">>
ID_S2 == <<"s","2">>

\* the profiles the user endpoints answer with: an object with or without
\* names, emote_set and connections, or JSON that is no object
UserBodies ==
    { [t |-> "user", username |-> u, display_name |-> d, emote_set |-> es,
       connections |-> cs] :
        u \in {<<>>, <<"b","o","b">>},
        d \in {<<>>, <<"B","o">>},
        es \in { [isdict |-> FALSE, id |-> <<>>], [isdict |-> TRUE, id |-> <<>>],
                 [isdict |-> TRUE, id |-> ID_S1] },
        cs \in { <<>>, << [emote_set_id |-> <<>>] >>,
                 << [emote_set_id |-> <<>>], [emote_set_id |-> ID_S2],
                    [emote_set_id |-> ID_S1] >> } }
    \cup { [t |-> "list"] }

CDN == <<"/","/","c","d","n">>

File(name) == [name |-> name]

\* the emotes a set holds: static and animated ones in a canonical or
\* another format, one without host.url and one without files
EmoteShapes ==
    { [name |-> <<"a">>, data_name |-> <<>>, id |-> <<"1">>, host_url |-> CDN,
       animated |-> FALSE, files |-> << File(S_2x \o <<".">> \o PNG) >>],
      [name |-> <<"b","!">>, data_name |-> <<>>, id |-> <<"2">>, host_url |-> CDN,
       animated |-> FALSE, files |-> << File(S_2x \o <<".">> \o WEBP) >>],
      [name |-> <<>>, data_name |-> <<"a">>, id |-> <<"3">>, host_url |-> CDN \o <<"/">>,
       animated |-> TRUE,
       files |-> << File(S_2x \o <<".">> \o WEBP), File(S_2x \o <<".">> \o GIF) >>],
      [name |-> <<"c">>, data_name |-> <<>>, id |-> <<"4">>, host_url |-> CDN,
       animated |-> TRUE, files |-> << File(S_1x \o <<".">> \o AVIF) >>],
      [name |-> <<"d">>, data_name |-> <<>>, id |-> <<"5">>, host_url |-> <<>>,
       animated |-> FALSE, files |-> << File(S_2x \o <<".">> \o PNG) >>],
      [name |-> <<"e">>, data_name |-> <<>>, id |-> <<"6">>, host_url |-> CDN,
       animated |-> FALSE, files |-> <<>>] }

E_PNG == CHOOSE e \in EmoteShapes : e.id = <<"1">>
E_WEBP == CHOOSE e \in EmoteShapes : e.id = <<"2">>
E_NOFILES == CHOOSE e \in EmoteShapes : e.id = <<"6">>

\* a set of three emotes, the second without files
ThreeEmotes == << E_PNG, E_NOFILES, E_WEBP >>

EmoteLists == UNION { [1..n -> EmoteShapes] : n \in 0..MaxEmotes } \cup {ThreeEmotes}

\* the emote sets the server answers with
SetBodies ==
    { [t |-> "set", name |-> n, owner |-> <<"o">>, emotes |-> es] :
        n \in {<<>>, <<"S","e","t">>}, es \in EmoteLists }

\* the bytes the CDN answers with
Blobs ==
    { [t |-> "bytes", kind |-> "unident", n_frames |-> 0, bad_frame |-> 0],
      [t |-> "bytes", kind |-> "corrupt", n_frames |-> 0, bad_frame |-> 0],
      [t |-> "bytes", kind |-> "image", n_frames |-> 1, bad_frame |-> 1],
      [t |-> "bytes", kind |-> "image", n_frames |-> 3, bad_frame |-> 3],
      [t |-> "bytes", kind |-> "image", n_frames |-> 3, bad_frame |-> 1] }

\* the statuses the server answers with
Statuses == {200, 404, 503}

\* what a 200 response to a request for url can hold
Bodies(url) ==
    CASE url.api \in {"users", "users/7tv"} -> UserBodies \cup {NotJson}
      [] url.api = "emote-sets" -> SetBodies \cup {NotJson}
      [] OTHER -> Blobs

\* what SESSION.get(url) can do: raise, or return a response
Outcomes(url) ==
    { [exc |-> TRUE, status |-> 0, body |-> NoBody] }
    \cup { [exc |-> FALSE, status |-> st, body |-> NoBody] : st \in Statuses \ {200} }
    \cup { [exc |-> FALSE, status |-> 200, body |-> b] : b \in Bodies(url) }

\* the responses that make an attempt fail
Failures(fn, url) == {o \in Outcomes(url) : AttemptError(fn, o) # NoErr}

\* What the server does to the successive requests of one call, as main()
\* meets it: the first k requests fail the same way, every later one gets o.
Scripts(fn, url, max_retries) ==
    { [i \in 1..max_retries |-> o] : o \in Outcomes(url) }
    \cup { [i \in 1..max_retries |-> IF i <= k THEN f ELSE o] :
             k \in 1..(max_retries - 1), f \in Failures(fn, url), o \in Outcomes(url) }

\* a whole call: the passes of the loop until it returns or raises
RECURSIVE RunCall(_, _, _)
RunCall(c, script, max_retries) ==
    IF c.state # "running" THEN c
    ELSE RunCall(RetryStep(c, script[c.attempt + 1], max_retries), script, max_retries)

http_get_json(url, script) == RunCall(NewCall("json", url), script, JSON_MAX_RETRIES)

download_bytes(url, script) == RunCall(NewCall("bytes", url), script, BYTES_MAX_RETRIES)

\* what a call leaves its caller with: the value returned or the exception
Ended(c) == [state |-> c.state, result |-> c.result,
             err |-> IF c.state = "raised" THEN c.last_err ELSE NoErr]

\* the ways the calls of main() can end: http_get_json for a user endpoint
\* and for an emote set, download_bytes for a file of the CDN
UserCalls ==
    LET url == [api |-> "users", path |-> <<>>]
    IN { Ended(http_get_json(url, s)) : s \in Scripts("json", url, JSON_MAX_RETRIES) }

SetCalls ==
    LET url == [api |-> "emote-sets", path |-> <<>>]
    IN { Ended(http_get_json(url, s)) : s \in Scripts("json", url, JSON_MAX_RETRIES) }

BytesCalls ==
    LET url == [api |-> "cdn", path |-> <<>>]
    IN { Ended(download_bytes(url, s)) : s \in Scripts("bytes", url, BYTES_MAX_RETRIES) }

\* the same calls with the number of requests each way of ending can take
UserRuns ==
    LET url == [api |-> "users", path |-> <<>>]
    IN { http_get_json(url, s) : s \in Scripts("json", url, JSON_MAX_RETRIES) }

SetRuns ==
    LET url == [api |-> "emote-sets", path |-> <<>>]
    IN { http_get_json(url, s) : s \in Scripts("json", url, JSON_MAX_RETRIES) }

BytesRuns ==
    LET url == [api |-> "cdn", path |-> <<>>]
    IN { download_bytes(url, s) : s \in Scripts("bytes", url, BYTES_MAX_RETRIES) }

Attempts(runs, r) == { c.attempt : c \in {x \in runs : Ended(x) = r} }

UserAttempts == [r \in UserCalls |-> Attempts(UserRuns, r)]

SetAttempts == [r \in SetCalls |-> Attempts(SetRuns, r)]

BytesAttempts == [r \in BytesCalls |-> Attempts(BytesRuns, r)]

\* ---------------------------------------------------------------- state

VARIABLES
    args,        \* the parsed command line
    pc,          \* where main() is
    fault,       \* the exception that left main(), "none" while there is none
    ids,         \* extract_ids(args.url)
    ep,          \* resolve_from_user: the endpoint tried next
    username,    \* resolve_from_user's first result
    set_id,      \* the emote set's id
    emotes,      \* emote_set["emotes"]
    outdir,      \* the output directory (<<>>: not derived yet)
    dir_made,    \* outdir.mkdir has run
    written,     \* the files written, in order
    idx,         \* the position in emotes of the emote processed next
    downloaded,  \* main's counter of files saved
    skipped,     \* main's counter of emotes skipped
    delays,      \* how often time.sleep(0.03) ran
    summary,     \* the "Done:" line printed (<<>>: not printed)
    resp,        \* how the fetcher call just made ended, until it is handled
    requested,   \* the URLs requested so far
    first_req,   \* the first URL requested
    call,        \* a fetcher call followed pass by pass
    hist,        \* of that call: what the earlier attempts and the last one met
    probe,       \* a function applied on its own: its arguments and its result
    signal,      \* the interrupt delivered to the process ("none": none yet)
    nreq         \* the most HTTP requests the calls made so far can have
                 \* taken, in the runs that count them; -1 in the others

vars == <<args, pc, fault, ids, ep, username, set_id, emotes, outdir, dir_made,
          written, idx, downloaded, skipped, delays, summary, resp, requested,
          first_req, call, hist, probe, signal, nreq>>

mainVars == <<args, pc, fault, ids, ep, username, set_id, emotes, outdir,
              dir_made, written, idx, downloaded, skipped, delays, summary,
              resp, requested, first_req, signal, nreq>>

NoUrl == [api |-> "none", path |-> <<>>]
NoOutcome == [exc |-> FALSE, status |-> 0, body |-> NoBody]
NoHist == [prior_retryable |-> TRUE, last |-> NoOutcome]
NoProbe == [fn |-> "none"]
NoResp == Ended(NoCall)

\* main() at pc p, for a command line a, before it has done anything
MainAt(a, p) ==
    /\ args = a
    /\ pc = p
    /\ fault = "none"
    /\ ids = NoIds
    /\ ep = 0
    /\ username = <<>>
    /\ set_id = <<>>
    /\ emotes = <<>>
    /\ outdir = <<>>
    /\ dir_made = FALSE
    /\ written = <<>>
    /\ idx = 0
    /\ downloaded = 0
    /\ skipped = 0
    /\ delays = 0
    /\ summary = <<>>
    /\ resp = NoResp
    /\ requested = {}
    /\ first_req = NoUrl
    /\ signal = "none"

\* parse_args: the command lines modelled (--out is not given)
Args == [url : Urls, scale : Scales, no_convert : BOOLEAN, out : {<<>>}]

Init ==
    /\ \E a \in Args : MainAt(a, "start")
    /\ nreq = -1
    /\ call = NoCall
    /\ hist = NoHist
    /\ probe = NoProbe

\* a request for url went out
Log(url) ==
    /\ requested' = requested \cup {url}
    /\ first_req' = IF first_req = NoUrl THEN url ELSE first_req

\* a call that made one of the numbers of requests ks went through: the
\* count goes up by the largest of them
Count(ks) ==
    IF nreq < 0 THEN nreq' = nreq
    ELSE nreq' = nreq + (CHOOSE k \in ks : \A j \in ks : j <= k)

\* main(): extract_ids
MainStart ==
    /\ pc = "start"
    /\ ids' = extract_ids(args.url)
    /\ CASE ids'.type = "error" ->
              /\ pc' = "raised" /\ fault' = "ValueError"
              /\ UNCHANGED <<ep, set_id>>
         [] ids'.type = "user" ->
              /\ pc' = "resolve" /\ ep' = 1
              /\ UNCHANGED <<fault, set_id>>
         [] OTHER ->
              /\ pc' = "fetch_set" /\ set_id' = ids'.id
              /\ UNCHANGED <<fault, ep>>
    /\ UNCHANGED <<nreq, signal, args, username, emotes, outdir, dir_made,
                   written, idx, downloaded, skipped, delays, summary, resp,
                   requested, first_req, call, hist, probe>>

\* resolve_from_user: http_get_json(ep, timeout) for the endpoint tried next
ResolveGet ==
    /\ pc = "resolve"
    /\ \E c \in UserCalls : resp' = c /\ Count(UserAttempts[c])
    /\ Log(endpoints(ids.id)[ep])
    /\ pc' = "resolve_got"
    /\ UNCHANGED <<signal, args, fault, ids, ep, username, set_id, emotes,
                   outdir, dir_made, written, idx, downloaded, skipped, delays,
                   summary, call, hist, probe>>

\* a call that raised leaves the try block like a response that cannot be read
Parsed(c) ==
    IF c.state = "returned" THEN ParseUser(c.result)
    ELSE [raised |-> TRUE, username |-> <<>>, set_id |-> <<>>]

\* resolve_from_user: the rest of the pass for this endpoint
ResolveFromUser ==
    /\ pc = "resolve_got"
    /\ \E parsed \in {Parsed(resp)} :
          IF ReturnsFrom(parsed)
          THEN /\ username' = parsed.username
               /\ set_id' = parsed.set_id
               /\ pc' = "fetch_set"
               /\ ep' = 0
               /\ UNCHANGED fault
          ELSE IF ep < Len(endpoints(ids.id))
          THEN /\ ep' = ep + 1
               /\ pc' = "resolve"
               /\ UNCHANGED <<fault, username, set_id>>
          ELSE /\ pc' = "raised" /\ fault' = "RuntimeError"
               /\ ep' = 0
               /\ UNCHANGED <<username, set_id>>
    /\ resp' = NoResp
    /\ UNCHANGED <<nreq, signal, args, ids, emotes, outdir, dir_made, written,
                   idx, downloaded, skipped, delays, summary, requested,
                   first_req, call, hist, probe>>

\* AfterFetch with the output directory made before the set is fetched
AfterFetchMkdirFirst(c, a, source_type, user, sid) ==
    IF c.state = "raised"
    THEN [pc |-> "raised", fault |-> c.err.e,
          outdir |-> derive_outdir(a.out, source_type,
                                   [username |-> user, name |-> <<>>], sid),
          dir_made |-> TRUE, emotes |-> <<>>, idx |-> 0]
    ELSE LET emote_set == c.result
             meta == IF source_type = "user"
                     THEN [username |-> user, name |-> <<>>]
                     ELSE [username |-> emote_set.owner, name |-> emote_set.name]
         IN [pc |-> IF emote_set.emotes = <<>> THEN "empty" ELSE "loop",
             fault |-> "none",
             outdir |-> derive_outdir(a.out, source_type, meta, sid),
             dir_made |-> TRUE,
             emotes |-> emote_set.emotes,
             idx |-> IF emote_set.emotes = <<>> THEN 0 ELSE 1]

\* AfterFetch without "if not emotes: ... return": an empty set goes through
\* the loop
AfterFetchNoEarlyReturn(c, a, source_type, user, sid) ==
    IF c.state = "raised"
    THEN [pc |-> "raised", fault |-> c.err.e, outdir |-> <<>>,
          dir_made |-> FALSE, emotes |-> <<>>, idx |-> 0]
    ELSE LET emote_set == c.result
             meta == IF source_type = "user"
                     THEN [username |-> user, name |-> <<>>]
                     ELSE [username |-> emote_set.owner, name |-> emote_set.name]
         IN [pc |-> "loop",
             fault |-> "none",
             outdir |-> derive_outdir(a.out, source_type, meta, sid),
             dir_made |-> TRUE,
             emotes |-> emote_set.emotes,
             idx |-> 1]

\* main() from fetch_emote_set to the check for an empty set, when
\* http_get_json ended as c: where main() is then, and what it has made
AfterFetch(c, a, source_type, user, sid) ==
    IF c.state = "raised"
    THEN [pc |-> "raised", fault |-> c.err.e, outdir |-> <<>>,
          dir_made |-> FALSE, emotes |-> <<>>, idx |-> 0]
    ELSE LET emote_set == c.result
             meta == IF source_type = "user"
                     THEN [username |-> user, name |-> <<>>]
                     ELSE [username |-> emote_set.owner, name |-> emote_set.name]
         IN [pc |-> IF emote_set.emotes = <<>> THEN "empty" ELSE "loop",
             fault |-> "none",
             outdir |-> derive_outdir(a.out, source_type, meta, sid),
             dir_made |-> TRUE,
             emotes |-> emote_set.emotes,
             idx |-> IF emote_set.emotes = <<>> THEN 0 ELSE 1]

\* main(): fetch_emote_set, derive_outdir, mkdir and the check for an empty set
FetchEmoteSet ==
    /\ pc = "fetch_set"
    /\ Log(EmoteSetUrl(set_id))
    /\ \E c \in SetCalls :
       \E r \in {AfterFetch(c, args, ids.type, username, set_id)} :
          /\ pc' = r.pc
          /\ fault' = r.fault
          /\ outdir' = r.outdir
          /\ dir_made' = r.dir_made
          /\ emotes' = r.emotes
          /\ idx' = r.idx
          /\ Count(SetAttempts[c])
    /\ UNCHANGED <<signal, args, ids, ep, username, set_id, written,
                   downloaded, skipped, delays, summary, resp, call, hist,
                   probe>>

\* ------------------------------------------------------- the emote loop

EMOTE == <<"e","m","o","t","e">>

\* e.get("name") or e.get("data", {}).get("name") or e.get("id", "emote")
NameTop(e) ==
    IF e.name # <<>> THEN e.name
    ELSE IF e.data_name # <<>> THEN e.data_name
    ELSE IF e.id # <<>> THEN e.id
    ELSE EMOTE

\* f"{name}_{args.scale}.{ext}"
OutName(name, scale, ext) == name \o <<"_">> \o scale \o <<".">> \o ext

CdnUrl(cdn_url) == [api |-> "cdn", path |-> cdn_url]

\* out_path.write_bytes(blob)
Raw(path) == [path |-> path, frames |-> <<>>, raw |-> TRUE]

\* The pass for emote e up to the call of download_bytes: the reason it is
\* skipped for ("": it is not) and the URL it downloads
BeforeDownload(e, scale) ==
    LET sel == best_file_for_emote(e, scale)
        cdn_url == build_cdn_url(e.host_url, e.files[sel.file].name)
    IN IF e.host_url = <<>> THEN [skip |-> "missing host.url", url |-> NoUrl]
       ELSE IF sel.file = 0 THEN [skip |-> "no file available", url |-> NoUrl]
       ELSE IF cdn_url = <<>> THEN [skip |-> "invalid CDN URL", url |-> NoUrl]
       ELSE [skip |-> "", url |-> CdnUrl(cdn_url)]

\* AfterDownload without the try around download_bytes: its exception
\* leaves the loop
AfterDownloadNoCatch(e, a, c, disk_ok) ==
    LET name == sanitize(NameTop(e))
        sel == best_file_for_emote(e, a.scale)
        ext == Lower(LastDotPart(e.files[sel.file].name))
        target == IF sel.animated THEN GIF ELSE PNG
        out_path == OutName(name, a.scale, target)
        conv == convert_and_save(c.result, out_path, sel.animated, target)
        Raise(why) == [result |-> "raised", why |-> why, writes |-> <<>>,
                       slept |-> FALSE]
        Save(how, ws, slept) ==
            IF disk_ok
            THEN [result |-> "saved", why |-> how, writes |-> ws, slept |-> slept]
            ELSE Raise("OSError")
    IN IF c.state = "raised" THEN Raise(c.err.e)
       ELSE IF a.no_convert
       THEN Save("no conversion", << Raw(OutName(name, a.scale, ext)) >>, FALSE)
       ELSE IF ext = target
       THEN Save("as is", << Raw(out_path) >>, TRUE)
       ELSE IF conv.raised THEN Raise("OSError")
       ELSE IF conv.ok THEN Save("converted", conv.writes, TRUE)
       ELSE Save("conversion not possible",
                 conv.writes \o << Raw(OutName(name, a.scale, ext)) >>, TRUE)

\* AfterDownload with "if ok: ... downloaded += 1 / else: skipped += 1":
\* nothing is stored and the emote is skipped when the conversion is not
\* possible
AfterDownloadFallbackSkips(e, a, c, disk_ok) ==
    LET name == sanitize(NameTop(e))
        sel == best_file_for_emote(e, a.scale)
        ext == Lower(LastDotPart(e.files[sel.file].name))
        target == IF sel.animated THEN GIF ELSE PNG
        out_path == OutName(name, a.scale, target)
        conv == convert_and_save(c.result, out_path, sel.animated, target)
        Raise == [result |-> "raised", why |-> "OSError", writes |-> <<>>,
                  slept |-> FALSE]
        Skip == [result |-> "skipped", why |-> "download failed", writes |-> <<>>,
                 slept |-> FALSE]
        Save(how, ws, slept) ==
            IF disk_ok
            THEN [result |-> "saved", why |-> how, writes |-> ws, slept |-> slept]
            ELSE Raise
    IN IF c.state = "raised" THEN Skip
       ELSE IF a.no_convert
       THEN Save("no conversion", << Raw(OutName(name, a.scale, ext)) >>, FALSE)
       ELSE IF ext = target
       THEN Save("as is", << Raw(out_path) >>, TRUE)
       ELSE IF conv.raised THEN Raise
       ELSE IF conv.ok THEN Save("converted", conv.writes, TRUE)
       ELSE IF disk_ok THEN Skip ELSE Raise

\* The pass for emote e from the call of download_bytes on, when the call
\* ended as c and the disk takes the writes (disk_ok) or the first write
\* raises OSError:
\*   result  "skipped" (a continue after skipped += 1), "saved" (downloaded
\*           += 1) or "raised" (an exception no handler of the loop catches)
\*   writes  the files written
\*   slept   whether time.sleep(0.03) at the end of the body ran
AfterDownload(e, a, c, disk_ok) ==
    LET name == sanitize(NameTop(e))
        sel == best_file_for_emote(e, a.scale)
        ext == Lower(LastDotPart(e.files[sel.file].name))
        target == IF sel.animated THEN GIF ELSE PNG
        out_path == OutName(name, a.scale, target)
        conv == convert_and_save(c.result, out_path, sel.animated, target)
        Raise == [result |-> "raised", why |-> "OSError", writes |-> <<>>,
                  slept |-> FALSE]
        Save(how, ws, slept) ==
            IF disk_ok
            THEN [result |-> "saved", why |-> how, writes |-> ws, slept |-> slept]
            ELSE Raise
    IN IF c.state = "raised"
       THEN [result |-> "skipped", why |-> "download failed", writes |-> <<>>,
             slept |-> FALSE]
       ELSE IF a.no_convert
       THEN Save("no conversion", << Raw(OutName(name, a.scale, ext)) >>, FALSE)
       ELSE IF ext = target
       THEN Save("as is", << Raw(out_path) >>, TRUE)
       ELSE IF conv.raised THEN Raise
       ELSE IF conv.ok THEN Save("converted", conv.writes, TRUE)
       ELSE Save("conversion not possible",
                 conv.writes \o << Raw(OutName(name, a.scale, ext)) >>, TRUE)

\* ProcessEmote with a skip that is not counted
ProcessEmoteUncountedSkip ==
    /\ pc = "loop"
    /\ idx <= Len(emotes)
    /\ \E b \in {BeforeDownload(emotes[idx], args.scale)} :
          IF b.skip # ""
          THEN /\ idx' = idx + 1
               /\ UNCHANGED <<pc, resp, requested, first_req, skipped, nreq>>
          ELSE /\ \E c \in BytesCalls : resp' = c /\ Count(BytesAttempts[c])
               /\ Log(b.url)
               /\ pc' = "downloaded"
               /\ UNCHANGED <<skipped, idx>>
    /\ UNCHANGED <<signal, args, fault, ids, ep, username, set_id, emotes,
                   outdir, dir_made, written, downloaded, delays, summary,
                   call, hist, probe>>

\* main(): a pass of the loop over the emotes, up to download_bytes
ProcessEmote ==
    /\ pc = "loop"
    /\ idx <= Len(emotes)
    /\ \E b \in {BeforeDownload(emotes[idx], args.scale)} :
          IF b.skip # ""
          THEN /\ skipped' = skipped + 1
               /\ idx' = idx + 1
               /\ UNCHANGED <<pc, resp, requested, first_req, nreq>>
          ELSE /\ \E c \in BytesCalls : resp' = c /\ Count(BytesAttempts[c])
               /\ Log(b.url)
               /\ pc' = "downloaded"
               /\ UNCHANGED <<skipped, idx>>
    /\ UNCHANGED <<signal, args, fault, ids, ep, username, set_id, emotes,
                   outdir, dir_made, written, downloaded, delays, summary,
                   call, hist, probe>>

\* SaveEmote with a download that is tried again after it failed
SaveEmoteRefetch ==
    /\ pc = "downloaded"
    /\ \E disk_ok \in BOOLEAN :
       \E r \in {AfterDownload(emotes[idx], args, resp, disk_ok)} :
          /\ written' = written \o r.writes
          /\ delays' = IF r.slept THEN delays + 1 ELSE delays
          /\ CASE r.result = "skipped" ->
                    /\ pc' = "loop"
                    /\ UNCHANGED <<fault, downloaded, skipped, idx>>
               [] r.result = "saved" ->
                    /\ downloaded' = downloaded + 1
                    /\ idx' = idx + 1
                    /\ pc' = "loop"
                    /\ UNCHANGED <<fault, skipped>>
               [] OTHER ->
                    /\ pc' = "raised" /\ fault' = r.why
                    /\ UNCHANGED <<idx, downloaded, skipped>>
    /\ resp' = NoResp
    /\ UNCHANGED <<nreq, signal, args, ids, ep, username, set_id, emotes,
                   outdir, dir_made, summary, requested, first_req, call, hist,
                   probe>>

\* main(): the rest of the pass, from the except clause around download_bytes
SaveEmote ==
    /\ pc = "downloaded"
    /\ \E disk_ok \in BOOLEAN :
       \E r \in {AfterDownload(emotes[idx], args, resp, disk_ok)} :
          /\ written' = written \o r.writes
          /\ delays' = IF r.slept THEN delays + 1 ELSE delays
          /\ CASE r.result = "skipped" ->
                    /\ skipped' = skipped + 1
                    /\ idx' = idx + 1
                    /\ pc' = "loop"
                    /\ UNCHANGED <<fault, downloaded>>
               [] r.result = "saved" ->
                    /\ downloaded' = downloaded + 1
                    /\ idx' = idx + 1
                    /\ pc' = "loop"
                    /\ UNCHANGED <<fault, skipped>>
               [] OTHER ->
                    /\ pc' = "raised" /\ fault' = r.why
                    /\ UNCHANGED <<idx, downloaded, skipped>>
    /\ resp' = NoResp
    /\ UNCHANGED <<nreq, signal, args, ids, ep, username, set_id, emotes,
                   outdir, dir_made, summary, requested, first_req, call, hist,
                   probe>>

\* main(): the "Done:" line after the loop
Finish ==
    /\ pc = "loop"
    /\ idx > Len(emotes)
    /\ summary' = <<downloaded, skipped>>
    /\ pc' = "done"
    /\ UNCHANGED <<nreq, signal, args, fault, ids, ep, username, set_id,
                   emotes, outdir, dir_made, written, idx, downloaded, skipped,
                   delays, resp, requested, first_req, call, hist, probe>>

Next ==
    \/ MainStart
    \/ ResolveGet
    \/ ResolveFromUser
    \/ FetchEmoteSet
    \/ ProcessEmote
    \/ SaveEmote
    \/ Finish

\* a run of main()
Spec == Init /\ [][Next]_vars

\* ------------------------------------------- a fetcher call, pass by pass

NoArgs == [url |-> <<>>, scale |-> S_2x, no_convert |-> FALSE, out |-> <<>>]

\* the URLs the calls of main() are made for
FetchUrls ==
    [fn : {"json"}, url : {endpoints(<<"u","1">>)[1], EmoteSetUrl(ID_S1)}]
    \cup [fn : {"bytes"}, url : {CdnUrl(build_cdn_url(CDN, S_2x \o <<".">> \o PNG))}]

InitFetch ==
    /\ MainAt(NoArgs, "idle")
    /\ nreq = -1
    /\ \E f \in FetchUrls : call = NewCall(f.fn, f.url)
    /\ hist = NoHist
    /\ probe = NoProbe

\* the retryable conditions: a status of RETRY_STATUSES, or SESSION.get raising
RetryableCondition(o) == o.exc \/ o.status \in RETRY_STATUSES

\* one pass of the loop of the fetcher fn
Attempt(fn, max_retries) ==
    /\ call.fn = fn
    /\ call.state = "running"
    /\ \E o \in Outcomes(call.url) :
          /\ call' = RetryStep(call, o, max_retries)
          /\ hist' = [prior_retryable |->
                          /\ hist.prior_retryable
                          /\ (call.attempt = 0 \/ RetryableCondition(hist.last)),
                      last |-> o]
    /\ UNCHANGED <<mainVars, probe>>

HttpGetJsonAttempt == Attempt("json", JSON_MAX_RETRIES)

DownloadBytesAttempt == Attempt("bytes", BYTES_MAX_RETRIES)

NextFetch == HttpGetJsonAttempt \/ DownloadBytesAttempt

\* one call of http_get_json or of download_bytes
SpecFetch == InitFetch /\ [][NextFetch]_vars

\* ------------------------------------------------- a run, requests counted

\* the command lines of the runs whose requests are counted: a set URL and a
\* user URL, conversion on
CountArgs ==
    [url : { HOST \o SETS_LIT \o <<"a","1">>,
             HOST \o SETS_LIT \o <<"-">> \o USERS_LIT \o <<"u","2","-","x">> },
     scale : {S_2x}, no_convert : {FALSE}, out : {<<>>}]

InitCount ==
    /\ \E a \in CountArgs : MainAt(a, "start")
    /\ call = NoCall
    /\ hist = NoHist
    /\ probe = NoProbe
    /\ nreq = 0

SpecCount == InitCount /\ [][Next]_vars

\* ------------------------------------------------- an external interrupt

\* the positions of main() at which it runs
Running == {"start", "resolve", "resolve_got", "fetch_set", "loop", "downloaded"}

\* the process after KeyboardInterrupt was raised at a position inside
\* `handlers` try blocks with "except Exception": a clause that catches it
\* lets the run go on; else it reaches "except KeyboardInterrupt:
\* sys.exit(130)"
Raised(handlers) ==
    /\ signal = "none"
    /\ signal' = "SIGINT"
    /\ IF handlers > 0 /\ ExceptException(KEYBOARD_INTERRUPT)
       THEN UNCHANGED <<pc, fault>>
       ELSE pc' = "exit130" /\ fault' = KEYBOARD_INTERRUPT
    /\ UNCHANGED <<args, ids, ep, username, set_id, emotes, outdir, dir_made,
                   written, idx, downloaded, skipped, delays, summary, resp,
                   call, hist, probe, nreq>>

\* the interrupt arrives while main() or resolve_from_user runs code of its
\* own; the body of resolve_from_user's loop is in a try block
Interrupt ==
    /\ pc \in Running
    /\ Raised(IF pc \in {"resolve", "resolve_got"} THEN 1 ELSE 0)
    /\ UNCHANGED <<requested, first_req>>

\* the fetcher call main() makes next, NoUrl when it makes none
NextUrl ==
    CASE pc = "resolve" -> endpoints(ids.id)[ep]
      [] pc = "fetch_set" -> EmoteSetUrl(set_id)
      [] pc = "loop" /\ idx <= Len(emotes) -> BeforeDownload(emotes[idx], args.scale).url
      [] OTHER -> NoUrl

\* the interrupt arrives inside that call, in SESSION.get or in time.sleep,
\* before or after the first request went out: the call's try block is
\* around it, and resolve_from_user's or the one around download_bytes
InterruptInCall ==
    /\ pc \in Running
    /\ NextUrl # NoUrl
    /\ Raised(IF pc = "fetch_set" THEN 1 ELSE 2)
    /\ \/ UNCHANGED <<requested, first_req>>
       \/ Log(NextUrl)

\* the same seen from the call followed pass by pass: a clause that catches
\* the interrupt goes on as after a failed attempt
InterruptFetcher ==
    /\ call.state = "running"
    /\ signal = "none"
    /\ signal' = "SIGINT"
    /\ call' = IF ExceptException(KEYBOARD_INTERRUPT)
               THEN [call EXCEPT !.attempt = @ + 1,
                                 !.last_err = [e |-> KEYBOARD_INTERRUPT, status |-> 0]]
               ELSE [call EXCEPT !.state = "interrupted"]
    /\ UNCHANGED <<args, pc, fault, ids, ep, username, set_id, emotes, outdir,
                   dir_made, written, idx, downloaded, skipped, delays,
                   summary, resp, requested, first_req, hist, probe, nreq>>

InitInterrupt == Init \/ InitFetch

NextInterrupt ==
    \/ Next
    \/ NextFetch
    \/ Interrupt
    \/ InterruptInCall
    \/ InterruptFetcher

\* a run of main(), or one fetcher call, that an interrupt can end
SpecInterrupt == InitInterrupt /\ [][NextInterrupt]_vars

\* ------------------------------------------ best_file_for_emote on its own

\* the longest file list tried
MaxFiles == 3

\* the names of the files tried: the formats of both priority lists at the
\* scale asked for, in lower and in upper case, another format at that scale
\* and files at other scales
FileNames ==
    { S_2x \o <<".">> \o GIF, <<"2","X",".","G","I","F">>,
      S_2x \o <<".">> \o WEBP, S_2x \o <<".">> \o AVIF, S_2x \o <<".">> \o PNG,
      <<"2","x",".","b","m","p">>, S_1x \o <<".">> \o PNG,
      <<"4","x",".","p","n","g">> }

FileLists == UNION { [1..n -> {File(f) : f \in FileNames}] : n \in 0..MaxFiles }

InitSelect ==
    /\ MainAt(NoArgs, "idle")
    /\ nreq = -1
    /\ call = NoCall
    /\ hist = NoHist
    /\ \E fs \in FileLists, an \in BOOLEAN, sc \in Scales :
          probe = [fn |-> "best_file_for_emote",
                   emote |-> [files |-> fs, animated |-> an],
                   scale |-> sc, done |-> FALSE,
                   out |-> [file |-> 0, animated |-> FALSE]]

\* a call of best_file_for_emote
BestFileForEmote ==
    /\ probe.fn = "best_file_for_emote"
    /\ ~probe.done
    /\ probe' = [probe EXCEPT !.done = TRUE,
                              !.out = best_file_for_emote(probe.emote, probe.scale)]
    /\ UNCHANGED <<mainVars, call, hist>>

NextSelect == BestFileForEmote

SpecSelect == InitSelect /\ [][NextSelect]_vars

\* ---------------------------------------------- convert_and_save on its own

\* the most frames an image tried has
MaxFrames == 3

\* the bytes tried: not an image, an image Pillow fails to open, and images
\* of 1..MaxFrames frames of which every frame can be reached (bad_frame =
\* n_frames) or seek(bad_frame) raises
ConvBlobs ==
    { [t |-> "bytes", kind |-> k, n_frames |-> 0, bad_frame |-> 0] :
        k \in {"unident", "corrupt"} }
    \cup UNION { { [t |-> "bytes", kind |-> "image", n_frames |-> n, bad_frame |-> b] :
                     b \in 0..n } : n \in 1..MaxFrames }

\* the target extensions tried
Targets == { GIF, <<"G","I","F">>, PNG, WEBP }

InitConvert ==
    /\ MainAt(NoArgs, "idle")
    /\ nreq = -1
    /\ call = NoCall
    /\ hist = NoHist
    /\ \E b \in ConvBlobs, an \in BOOLEAN, t \in Targets :
          probe = [fn |-> "convert_and_save",
                   content |-> b, animated |-> an, target_ext |-> t,
                   out_path |-> OutName(<<"a">>, S_2x, Lower(t)),
                   done |-> FALSE,
                   out |-> [raised |-> FALSE, ok |-> FALSE, writes |-> <<>>]]

\* a call of convert_and_save
ConvertAndSave ==
    /\ probe.fn = "convert_and_save"
    /\ ~probe.done
    /\ probe' = [probe EXCEPT
                    !.done = TRUE,
                    !.out = convert_and_save(probe.content, probe.out_path,
                                             probe.animated, probe.target_ext)]
    /\ UNCHANGED <<mainVars, call, hist>>

NextConvert == ConvertAndSave

SpecConvert == InitConvert /\ [][NextConvert]_vars

\* =================================================================
\* The claims
\* =================================================================

\* an HTTP error status that is not one of the retryable ones, such as 404
NonRetryableStatus(o) ==
    ~o.exc /\ o.status >= 400 /\ o.status \notin {429, 500, 502, 503, 504, 520, 522, 524}

\* C1: for both fetchers, a request answered with a non-retryable HTTP error
\* status ends the fetch at once: the call has failed, and when that request
\* was the first one the call made one request and never slept.
C1_NonRetryableFailsAtOnce ==
    (call.attempt >= 1 /\ NonRetryableStatus(hist.last)) =>
        /\ call.state = "raised"
        /\ (call.attempt = 1 => call.sleeps = 0)

\* the attempts of the call before the last one all met a retryable condition
\* and the last one was answered with status 200
RetriedThenOk ==
    /\ call.attempt >= 1
    /\ hist.prior_retryable
    /\ ~hist.last.exc
    /\ hist.last.status = 200

\* an attempt that is not the last one allowed met a retryable condition: the
\* call goes on, having slept once after each attempt
RetriesOn ==
    (/\ call.attempt >= 1
     /\ call.attempt < (IF call.fn = "json" THEN 6 ELSE 5)
     /\ hist.prior_retryable
     /\ RetryableCondition(hist.last)) =>
        (call.state = "running" /\ call.sleeps = call.attempt)

\* C2 as stated: for both fetchers, when the first k attempts (k < max_retries)
\* each meet a retryable condition and attempt k+1 is answered with status
\* 200, the call returns the body of attempt k+1 after k+1 requests and k
\* sleeps.
C2_RetryThenSuccess ==
    /\ RetriesOn
    /\ RetriedThenOk =>
          /\ call.state = "returned"
          /\ call.result = hist.last.body
          /\ call.sleeps = call.attempt - 1

\* C2 as amended: the same, for http_get_json only when the body of the 200
\* response parses as JSON.
C2_RetryThenSuccessJson ==
    /\ RetriesOn
    /\ (RetriedThenOk /\ (call.fn = "json" => hist.last.body # NotJson)) =>
          /\ call.state = "returned"
          /\ call.result = hist.last.body
          /\ call.sleeps = call.attempt - 1

\* 503, 503, 200: http_get_json has returned after three requests, two sleeps
C2_Witness ==
    /\ call.fn = "json"
    /\ call.state = "returned"
    /\ call.attempt = 3
    /\ call.sleeps = 2
    /\ hist.prior_retryable
    /\ call.last_err = [e |-> "HTTPError", status |-> 503]
    /\ call.result \in UserBodies

\* C3: http_get_json makes at most 6 requests and download_bytes at most 5;
\* a call that fails has made all of them, has slept once between two
\* attempts and not after the last, and raises what the last attempt met; and
\* a call whose attempts all met a retryable condition fails so.
C3_FailsOnlyWhenExhausted ==
    LET max == IF call.fn = "json" THEN 6 ELSE 5
    IN /\ call.attempt <= max
       /\ call.state = "raised" =>
             /\ call.attempt = max
             /\ call.sleeps = max - 1
             /\ call.last_err.status = hist.last.status
             /\ (call.last_err.e = "ConnectionError") <=> hist.last.exc
       /\ (/\ call.attempt = max
           /\ hist.prior_retryable
           /\ RetryableCondition(hist.last)) => call.state = "raised"

\* download_bytes has failed on a timeout after four retryable failures
C3_Witness ==
    /\ call.fn = "bytes"
    /\ call.state = "raised"
    /\ call.attempt = 5
    /\ call.sleeps = 4
    /\ hist.prior_retryable
    /\ hist.last.exc

\* the URL holds a /emote-sets/<id> segment
IsSetUrl(url) == MatchStarts(SETS_LIT, url) # {}

URL_BOTH == HOST \o USERS_LIT \o <<"u","1">> \o SETS_LIT \o <<"b","2","?","z">>

\* C4: for a URL with a /emote-sets/<id> segment, with or without a
\* /users/<id> segment, extract_ids gives type "set" and the id captured after
\* /emote-sets/, no request goes out before the emote set is fetched, and the
\* first request of the run is the one for that emote set.
C4_SetUrlNeedsNoLookup ==
    (pc # "start" /\ IsSetUrl(args.url)) =>
        /\ ids = [type |-> "set", id |-> Captured(SETS_LIT, args.url)]
        /\ set_id = ids.id
        /\ pc = "fetch_set" => requested = {}
        /\ first_req \in {NoUrl, [api |-> "emote-sets", path |-> ids.id]}
        /\ \A u \in requested : u.api \notin {"users", "users/7tv"}

\* the URL with both segments: the set b2 was fetched first, the loop runs
C4_Witness ==
    /\ args.url = URL_BOTH
    /\ pc = "loop"
    /\ ids = [type |-> "set", id |-> <<"b","2">>]
    /\ first_req = [api |-> "emote-sets", path |-> <<"b","2">>]

\* the call returned a profile: a JSON object
Profile(c) == c.state = "returned" /\ c.result.t = "user"

\* the profile holds a display name
HasName(d) == d.username # <<>> \/ d.display_name # <<>>

\* the profile holds an active-collection reference with an id
HasRef(d) == d.emote_set.isdict /\ d.emote_set.id # <<>>

\* the connections of the profile that carry a collection id
Carrying(d) == {i \in DOMAIN d.connections : d.connections[i].emote_set_id # <<>>}

\* the profile holds a collection id
HasId(d) == HasRef(d) \/ Carrying(d) # {}

\* C5 as stated: resolve_from_user returns from an endpoint exactly when its
\* response holds a display name and a collection id, and goes on to the
\* next endpoint otherwise.
C5_ReturnsWithNameAndId ==
    [][pc = "resolve_got" =>
          /\ (pc' = "fetch_set") <=>
                (Profile(resp) /\ HasName(resp.result) /\ HasId(resp.result))
          /\ (pc' # "fetch_set" /\ ep < 2) => (pc' = "resolve" /\ ep' = ep + 1)
      ]_vars

\* C5 as amended: resolve_from_user returns from an endpoint exactly when its
\* response holds a collection id, with or without a display name, and goes
\* on to the next endpoint otherwise.
C5_ReturnsWithId ==
    [][pc = "resolve_got" =>
          /\ (pc' = "fetch_set") <=> (Profile(resp) /\ HasId(resp.result))
          /\ (pc' = "fetch_set") => set_id' # <<>>
          /\ (pc' # "fetch_set" /\ ep < 2) => (pc' = "resolve" /\ ep' = ep + 1)
      ]_vars

\* resolve_from_user has returned an id and no username
C5_Witness ==
    /\ ids.type = "user"
    /\ pc = "fetch_set"
    /\ set_id # <<>>
    /\ username = <<>>

\* C6: the id resolve_from_user returns is emote_set.id of the response it
\* returns from when that is there and not empty, else the emote_set_id of the
\* first connection carrying one, and the name is that profile's; when the
\* primary endpoint answers with such a reference, resolve_from_user returns
\* from it and the fallback endpoint is not requested.
C6_ActiveSetFirst ==
    [][/\ (pc = "resolve_got" /\ pc' = "fetch_set") =>
             /\ Profile(resp)
             /\ HasRef(resp.result) => set_id' = resp.result.emote_set.id
             /\ ~HasRef(resp.result) =>
                   \E i \in Carrying(resp.result) :
                      /\ set_id' = resp.result.connections[i].emote_set_id
                      /\ \A j \in Carrying(resp.result) : i <= j
             /\ username' = IF resp.result.username # <<>>
                            THEN resp.result.username
                            ELSE resp.result.display_name
       /\ (pc = "resolve_got" /\ ep = 1 /\ Profile(resp) /\ HasRef(resp.result)) =>
             pc' = "fetch_set"
       /\ (\E u \in requested' \ requested : u.api = "users/7tv") =>
             (pc = "resolve" /\ ep = 2)
       /\ (ep' = 2 /\ ep # 2) =>
             (pc = "resolve_got" /\ ~(Profile(resp) /\ HasRef(resp.result)))
      ]_vars

\* the primary endpoint answered with the reference s1: it is the set fetched,
\* under the profile's name, and the fallback endpoint was not requested
C6_Witness ==
    /\ ids.type = "user"
    /\ pc = "loop"
    /\ set_id = ID_S1
    /\ username = <<"B","o">>
    /\ requested = {[api |-> "users", path |-> ids.id],
                    [api |-> "emote-sets", path |-> ID_S1]}

\* C7: when the URL matches neither pattern, when no endpoint yields an id
\* and when the fetch of the emote set fails, main() ends in an exception
\* before the output directory is made, before a file of the CDN is
\* requested and before a file is written.
C7_SetupFailuresLeaveNothing ==
    /\ (pc # "start" /\ ids.type = "error") => (pc = "raised" /\ fault = "ValueError")
    /\ fault \in {"ValueError", "RuntimeError", "HTTPError", "ConnectionError",
                  "JSONDecodeError"} =>
          /\ pc = "raised"
          /\ ~dir_made
          /\ outdir = <<>>
          /\ written = <<>>
          /\ downloaded = 0
          /\ summary = <<>>
          /\ \A u \in requested : u.api # "cdn"
    /\ (pc = "raised" /\ idx = 0) =>
          fault \in {"ValueError", "RuntimeError", "HTTPError", "ConnectionError",
                     "JSONDecodeError"}

\* a user was resolved and the fetch of the emote set failed
C7_Witness ==
    /\ ids.type = "user"
    /\ set_id # <<>>
    /\ pc = "raised"
    /\ fault = "HTTPError"
    /\ ~dir_made

\* the priority list documented for an emote
DocPriority(animated) ==
    IF animated THEN << <<"g","i","f">>, <<"w","e","b","p">>, <<"a","v","i","f">> >>
    ELSE << <<"p","n","g">>, <<"w","e","b","p">>, <<"a","v","i","f">> >>

\* the positions of the files whose lower-cased name is <scale>.<format k>
Named(files, scale, animated, k) ==
    {i \in DOMAIN files :
        Lower(files[i].name) = scale \o <<".">> \o DocPriority(animated)[k]}

\* the formats, by position in the priority list, some file is named for
Formats(files, scale, animated) ==
    {k \in 1..3 : Named(files, scale, animated, k) # {}}

\* the positions of the files whose lower-cased name starts with the scale
Prefixed(files, scale) ==
    {i \in DOMAIN files : StartsWith(Lower(files[i].name), scale)}

Least(S) == CHOOSE i \in S : \A j \in S : i <= j

Greatest(S) == CHOOSE i \in S : \A j \in S : j <= i

\* the one of the positions S the policy takes
Pick(S, first) == IF first THEN Least(S) ELSE Greatest(S)

\* the selection policy, taking the first or the last of the files named for
\* a format
Policy(first) ==
    probe.done =>
        LET files == probe.emote.files
            animated == probe.emote.animated
            scale == probe.scale
            formats == Formats(files, scale, animated)
        IN /\ probe.out.animated = animated
           /\ (probe.out.file = 0) <=> (files = <<>>)
           /\ formats # {} =>
                 files[probe.out.file] =
                     files[Pick(Named(files, scale, animated, Least(formats)), first)]
           /\ (formats = {} /\ Prefixed(files, scale) # {}) =>
                 probe.out.file = Least(Prefixed(files, scale))
           /\ (formats = {} /\ Prefixed(files, scale) = {}) =>
                 probe.out.file = Len(files)

\* C8 as stated: best_file_for_emote returns the first file whose lower-cased
\* name is <scale>.<format> for the earliest format of the priority list
\* ([gif, webp, avif] animated, [png, webp, avif] static) some file is named
\* for; without one, the first file whose name starts with the scale; without
\* one, the last file; and no file only when there are no files.
C8_FirstOfTheName == Policy(TRUE)

\* C8 as amended: as C8, with the last file in list order of those whose
\* lower-cased name is <scale>.<format> for the earliest such format.
C8_LastOfTheName == Policy(FALSE)

\* animated, 2X.GIF before 2x.webp before 2x.gif, at 2x: the third file
C8_Witness ==
    /\ probe.done
    /\ probe.emote.animated
    /\ probe.scale = S_2x
    /\ probe.emote.files = << File(<<"2","X",".","G","I","F">>),
                              File(S_2x \o <<".">> \o WEBP),
                              File(S_2x \o <<".">> \o GIF) >>
    /\ probe.out.file = 3

\* the emote of this pass has no host URL or no files, or its download has
\* failed after the retries
SkipCase ==
    \/ /\ pc = "loop"
       /\ idx <= Len(emotes)
       /\ emotes[idx].host_url = <<>> \/ emotes[idx].files = <<>>
    \/ /\ pc = "downloaded"
       /\ resp.state = "raised"

\* C9: an emote without a host URL, without files or whose download fails
\* after the retries counts as one skip: the pass adds one to skipped, leaves
\* downloaded alone, writes no file, raises nothing and goes on to the next
\* emote of the set.
C9_SkipAndGoOn ==
    [][SkipCase =>
          /\ skipped' = skipped + 1
          /\ downloaded' = downloaded
          /\ written' = written
          /\ fault' = fault
          /\ idx' = idx + 1
          /\ pc' = "loop"
      ]_vars

\* three emotes, the second without files: 2 saved, 1 skipped
C9_Witness ==
    /\ pc = "done"
    /\ emotes = ThreeEmotes
    /\ emotes[2].files = <<>>
    /\ summary = <<2, 1>>
    /\ Len(written) = 2

\* C10: once the loop over the emotes has begun, main() raises nothing.
C10_LoopNeverRaises == idx >= 1 => pc # "raised"

\* the file best_file_for_emote selects for the emote of this pass
Selected == emotes[idx].files[best_file_for_emote(emotes[idx], args.scale).file]

\* the extension of that file and the one main() converts to
SelectedExt == Lower(LastDotPart(Selected.name))

TargetExt == IF emotes[idx].animated THEN GIF ELSE PNG

\* the start of every path main() writes for the emote of this pass:
\* {sanitized name}_{scale}.
PathStem == sanitize(NameTop(emotes[idx])) \o <<"_">> \o args.scale \o <<".">>

\* the files the step adds to the ones written
Added == SubSeq(written', Len(written) + 1, Len(written'))

\* the bytes downloaded for this pass are to be converted and are not an
\* image of a format Pillow recognises
DecodeFails ==
    /\ pc = "downloaded"
    /\ resp.state = "returned"
    /\ resp.result.kind = "unident"
    /\ ~args.no_convert
    /\ SelectedExt # TargetExt

C12_OneFilePerSave ==
    [][/\ downloaded' = downloaded + 1 =>
             /\ Len(Added) = 1
             /\ Added[1].path \in {PathStem \o SelectedExt, PathStem \o TargetExt}
       /\ skipped' = skipped + 1 => written' = written
      ]_vars

\* C14: time.sleep(0.03) follows every emote processed, skipped or saved,
\* with or without conversion: between two passes of the loop and after the
\* last one, the delay has run once for each emote gone through.
C14_DelayAfterEachEmote ==
    pc \in {"loop", "done"} => delays = idx - 1

\* the exit status of the process: 0 when main() returns, 1 when an
\* exception leaves it, 130 on KeyboardInterrupt; -1 while it runs
ExitStatus ==
    CASE pc \in {"done", "empty"} -> 0
      [] pc = "raised" -> 1
      [] pc = "exit130" -> 130
      [] OTHER -> -1

\* C15 as stated: every run that exits with status 0 has printed the "Done:"
\* line with the counts of files saved and emotes skipped, a run over a set
\* without emotes included (0 saved, 0 skipped).
C15_SummaryOnEveryNormalExit ==
    ExitStatus = 0 =>
        /\ pc = "done"
        /\ summary = <<downloaded, skipped>>
        /\ emotes = <<>> => summary = <<0, 0>>

\* C15 as amended: every run over a set with emotes that exits with status 0
\* has printed the "Done:" line with the two counts; a run over a set without
\* emotes exits with status 0 after making the output directory and without
\* printing the counts.
C15_SummaryUnlessEmpty ==
    /\ (ExitStatus = 0 /\ emotes # <<>>) =>
          /\ pc = "done"
          /\ summary = <<downloaded, skipped>>
    /\ (ExitStatus = 0 /\ emotes = <<>>) =>
          /\ pc = "empty"
          /\ summary = <<>>
          /\ dir_made
          /\ written = <<>>
    /\ summary # <<>> => pc = "done"

\* a run over a set without emotes has returned
C15_Witness ==
    /\ pc = "empty"
    /\ ExitStatus = 0
    /\ emotes = <<>>
    /\ dir_made
    /\ summary = <<>>

\* the names the server gives its emote sets, sanitized
SetNames == {sanitize(b.name) : b \in {x \in SetBodies : x.name # <<>>}}

\* C18: without --out, the output directory of a user source is 7tv_<name>
\* when resolve_from_user gave a name and 7tv_user_<sanitized id> when it gave
\* none, and the one of a set source is 7tv_set_<name> for a set with a name
\* and 7tv_set_<sanitized id> for one without.
C18_OutdirFallsBackToId ==
    (outdir # <<>> /\ args.out = <<>>) =>
        /\ (ids.type = "user" /\ username # <<>>) =>
              outdir = <<"7","t","v","_">> \o sanitize(username)
        /\ (ids.type = "user" /\ username = <<>>) =>
              outdir = <<"7","t","v","_","u","s","e","r","_">> \o sanitize(set_id)
        /\ ids.type = "set" =>
              \/ \E n \in SetNames : outdir = <<"7","t","v","_","s","e","t","_">> \o n
              \/ outdir = <<"7","t","v","_","s","e","t","_">> \o sanitize(set_id)

\* C19: the emotes are gone through one at a time in the order of the set;
\* each pass adds one to exactly one of downloaded and skipped; between two
\* passes downloaded + skipped is the number of emotes gone through; and the
\* counts of the "Done:" line add up to the number of emotes of the set.
C19_Accounting ==
    [][/\ (idx >= 1 /\ idx' # idx) =>
             /\ idx' = idx + 1
             /\ \/ downloaded' = downloaded + 1 /\ skipped' = skipped
                \/ downloaded' = downloaded /\ skipped' = skipped + 1
       /\ idx' = idx => (downloaded' = downloaded /\ skipped' = skipped)
       /\ pc' \in {"loop", "downloaded"} => downloaded' + skipped' = idx' - 1
       /\ \A u \in requested' \ requested :
             u.api = "cdn" =>
                u.path = build_cdn_url(emotes[idx].host_url, Selected.name)
       /\ pc' = "done" =>
             /\ summary' = <<downloaded', skipped'>>
             /\ summary'[1] + summary'[2] = Len(emotes')
      ]_vars

\* three emotes, all gone through: one saved, two skipped
C19_Witness ==
    /\ pc = "done"
    /\ Len(emotes) = 3
    /\ summary = <<1, 2>>

\* convert_and_save was called on bytes Pillow opens as an image
Decoded == probe.done /\ probe.content.kind = "image"

\* the file a conversion writes: out_path, holding the frames fs
Converted(fs) == << [path |-> probe.out_path, frames |-> fs, raw |-> FALSE] >>

\* the file a verbatim store writes: the bytes as they came, under .orig
Verbatim ==
    << [path |-> probe.out_path \o <<".","o","r","i","g">>,
        frames |-> <<>>, raw |-> TRUE] >>

\* the emote is flagged animated, the image has several frames, the target
\* is gif
GifCase ==
    /\ probe.animated
    /\ probe.content.n_frames > 1
    /\ Lower(probe.target_ext) = <<"g","i","f">>

\* the decision table, given when convert_and_save converts to PNG
Table(png_case) ==
    Decoded =>
        /\ ~probe.out.raised
        /\ GifCase =>
              /\ probe.out.ok
              /\ probe.out.writes = Converted(probe.out.writes[1].frames)
              /\ probe.out.writes[1].frames # <<>>
        /\ (~GifCase /\ png_case) =>
              (probe.out.ok /\ probe.out.writes = Converted(<<0>>))
        /\ (~GifCase /\ ~png_case) =>
              (~probe.out.ok /\ probe.out.writes = Verbatim)

\* C16 as stated: convert_and_save writes an animated GIF only for an emote
\* flagged animated, an image of several frames and the target gif; a PNG
\* only for an emote not flagged animated and the target png; and in every
\* other case stores the bytes as they came and returns False, raising
\* nothing.
C16_DecisionTable ==
    Table(~probe.animated /\ Lower(probe.target_ext) = <<"p","n","g">>)

\* C16 as amended: as C16, but a PNG is written whenever the target is png
\* and no GIF is, whether or not the emote is flagged animated.
C16_DecisionTablePng ==
    Table(Lower(probe.target_ext) = <<"p","n","g">>)

\* flagged animated, target png: the first frame was converted to PNG
C16_Witness ==
    /\ Decoded
    /\ probe.animated
    /\ probe.content.n_frames = 3
    /\ probe.target_ext = PNG
    /\ probe.out.ok
    /\ probe.out.writes = Converted(<<0>>)

\* C17: when reading the frames of an animated image raises at some frame,
\* after none or some frames were read, convert_and_save raises nothing and
\* writes a GIF of one frame, frame 0 of the image.
C17_FallsBackToFrameZero ==
    (Decoded /\ GifCase /\ probe.content.bad_frame < probe.content.n_frames) =>
        /\ ~probe.out.raised
        /\ probe.out.ok
        /\ probe.out.writes = Converted(<<0>>)

\* C13: an interrupt, wherever it arrives, ends the run: the step that
\* delivers it leaves a fetcher call without a further attempt or sleep and
\* main() with exit status 130 through the KeyboardInterrupt handler, no
\* emote is counted or written for it, and nothing happens after it.
C13_InterruptExits130 ==
    [][signal' = "SIGINT" =>
          /\ signal = "none"
          /\ pc = "idle" =>
                /\ call'.state = "interrupted"
                /\ call'.attempt = call.attempt
                /\ call'.sleeps = call.sleeps
          /\ pc # "idle" =>
                /\ ExitStatus' = 130
                /\ fault' = "KeyboardInterrupt"
                /\ idx' = idx
                /\ skipped' = skipped
                /\ downloaded' = downloaded
                /\ written' = written
                /\ summary' = summary
      ]_vars

\* the interrupt came inside the download of the second emote, the first
\* one saved
C13_Witness ==
    /\ signal = "SIGINT"
    /\ pc = "exit130"
    /\ idx = 2
    /\ downloaded = 1
    /\ Len(written) = 1
    /\ resp = NoResp
    /\ \E u \in requested : u.api = "cdn"

\* main() has returned or an exception has left it
Terminated == pc \in {"done", "empty", "raised"}

\* how far main() is from the loop over the emotes: the calls of
\* resolve_from_user and of fetch_emote_set still ahead
Phase ==
    CASE pc = "start" -> 6
      [] pc = "resolve" /\ ep = 1 -> 5
      [] pc = "resolve_got" /\ ep = 1 -> 4
      [] pc = "resolve" -> 3
      [] pc = "resolve_got" -> 2
      [] pc = "fetch_set" -> 1
      [] OTHER -> 0

\* the steps the loop over the emotes has left at most
Rest ==
    CASE pc = "loop" -> 2 * (Len(emotes) + 1 - idx) + 1
      [] pc = "downloaded" -> 2 * (Len(emotes) + 1 - idx)
      [] OTHER -> 0

\* the steps of main() up to the one that stores a download
UpToDownload ==
    \/ MainStart
    \/ ResolveGet
    \/ ResolveFromUser
    \/ FetchEmoteSet
    \/ ProcessEmote
    \/ Finish

\* C20: every run ends, for every step takes main() closer to its end (fewer
\* calls ahead of the loop, or fewer steps left in the loop, never below
\* none) and main(), until it has ended, has a step to take wherever it is
\* ahead of storing a download; it makes at most 12 requests for the two
\* user endpoints, 6 for the emote set and 5 for each emote; and an emote is
\* downloaded by one call of at most 5 requests, after which the loop goes
\* on to the next emote or the run ends.
C20_TerminatesWithinBound ==
    /\ [](Rest >= 0)
    /\ []((~Terminated /\ pc # "downloaded") => ENABLED UpToDownload)
    /\ [](nreq <= 12 + 6 + 5 * Len(emotes))
    /\ [][/\ Phase' < Phase \/ (Phase' = Phase /\ Rest' < Rest)
          /\ idx' >= idx
          /\ (pc = "loop" /\ nreq' # nreq) =>
                (pc' = "downloaded" /\ idx' = idx /\ nreq' - nreq \in 1..5)
          /\ pc = "downloaded" =>
                (nreq' = nreq /\ (idx' = idx + 1 \/ pc' = "raised"))
         ]_vars

\* a user source, both endpoints and the set fetched to the last attempt,
\* two emotes each downloaded at the fifth request: 28 requests
C20_Witness ==
    /\ pc = "done"
    /\ ids.type = "user"
    /\ Len(emotes) = 2
    /\ nreq = 12 + 6 + 5 * 2

====
